---- MODULE Spec2Model ----
(***************************************************************************)
(* MQTT-over-TLS latency harness (cryptography-stats).                     *)
(*                                                                         *)
(* Four state machines are modelled:                                       *)
(*   Spec      - one trial, run_mqtt_test (utils/mqtt/test_runner.py): the *)
(*               caller thread, statement by statement, interleaved with   *)
(*               the paho network-loop thread that delivers on_connect,    *)
(*               on_disconnect and on_publish.                             *)
(*   BatchSpec - the batch loop of the GUI                                 *)
(*               (utils/certificate_manager_gui.py) with its Start and     *)
(*               Cancel buttons, each Start spawning a worker thread.      *)
(*   StatsSpec - calculate_statistics (utils/mqtt/test_runner.py) applied  *)
(*               to a column of durations and to reorderings of it.        *)
(*   ResultsSpec - MqttTestState.get_results_dict applied to every         *)
(*               MqttTestState, reachable in a trial or not.               *)
(* Every step of either thread that reads or writes a shared field is an   *)
(* action of its own, so every interleaving of the threads is explored.    *)
(***************************************************************************)
EXTENDS Integers, Sequences, FiniteSets, TLC

\* ------------------------------------------------------------------ bounds
\* time.perf_counter() is read as a whole number of seconds in 1..MaxClock
MaxClock == 3

\* --------------------------------------------------------- program constants
\* on_disconnect: "current_time - state.publish_ack_time < 1.0"
GraceWindow == 1

\* the first two of PerformanceTest.AVAILABLE_CIPHERS, in the dict's order
Ciphers == <<"ECDHE-ECDSA-AES128-GCM-SHA256", "ECDHE-ECDSA-AES256-GCM-SHA384">>

\* config_name = f"Test_{cipher}"
ConfigName(cipher) == <<"Test_", cipher>>

\* reason codes the adapter delivers: success, and 5 (not authorized)
ReasonCodes == {0, 5}
\* message ids the adapter hands out and acknowledges
Mids == {1, 2}

\* Python None, for a duration, for message_id and for the error
Null == -1
NoMid == 0
None == [msg |-> "None", code |-> 0]
Err(m, c) == [msg |-> m, code |-> c]

VARIABLES
  \* ---- one trial (run_mqtt_test)
  state,            \* the MqttTestState object
  pc,               \* caller thread: the statement it is about to run
  connected,        \* local: result of connect_event.wait
  puback_received,  \* local: result of publish_event.wait
  msg_info_mid,     \* local: msg_info.mid returned by client.publish
  err_msg,          \* argument of the record_error call in progress
  ret_pc,           \* where the caller continues after record_error
  cb,               \* network-loop thread: the callback in progress
  clock,            \* time.perf_counter()
  loop_running,     \* the network-loop thread is alive
  hist,             \* history: what the adapter did in this trial
  \* ---- the batch (GUI)
  form,             \* the form: iterations, delay and the ticked ciphers
  test_cancelled,   \* self.test_cancelled
  test_thread,      \* self.test_thread: the worker started last (0: none)
  worker,           \* per worker thread: its frame (locals and position)
  sink,             \* per worker: what export_results_to_excel was given
  reported,         \* per worker: the outcome posted to the GUI
  \* ---- the statistics (calculate_statistics)
  data_list,        \* the argument: a column of durations, None among them
  stats,            \* the dictionary returned for it
  \* ---- the result of a trial (get_results_dict)
  results_dict      \* the dictionary get_results_dict returned

\* the variables of the statistics, of the trial and of the batch
svars == <<data_list, stats, results_dict>>
tstate == <<state, pc, connected, puback_received, msg_info_mid, err_msg,
            ret_pc, cb, clock, loop_running, hist>>
bstate == <<form, test_cancelled, test_thread, worker, sink, reported>>

\* what the steps of the batch (tvars) and of the trial (bvars) leave alone
tvars == <<tstate, svars>>
bvars == <<bstate, svars>>
vars == <<tstate, bstate, svars>>

\* ============================================================ MqttTestState

\* MqttTestState.__init__
NewState(iteration, config_name) ==
  [iteration |-> iteration, config_name |-> config_name,
   connect_sent_time |-> 0, connect_ack_time |-> 0,
   publish_sent_time |-> 0, publish_ack_time |-> 0,
   error |-> None, connect_event |-> FALSE, publish_event |-> FALSE,
   message_id |-> NoMid]

\* Python truthiness of self.error
IsSet(e) == e /= None

\* get_results_dict without its early return on self.error: the durations are
\* computed from the timestamps whether or not an error was recorded
GetResultsDict_NoEarlyReturn(s) ==
  LET conn == s.connect_sent_time > 0 /\ s.connect_ack_time > 0
      pub  == conn /\ s.publish_sent_time > 0 /\ s.publish_ack_time > 0
  IN [iteration |-> s.iteration,
      handshake |-> IF conn THEN s.connect_ack_time - s.connect_sent_time ELSE Null,
      puback |-> IF pub THEN s.publish_ack_time - s.publish_sent_time ELSE Null,
      total |-> IF pub THEN s.publish_ack_time - s.connect_sent_time ELSE Null,
      error |-> s.error]

\* get_results_dict reporting a run that stopped after the handshake as a
\* result without error
GetResultsDict_HandshakeOnly(s) ==
  IF s.error = None /\ s.connect_sent_time > 0 /\ s.connect_ack_time > 0
     /\ s.publish_sent_time = 0
  THEN [iteration |-> s.iteration,
        handshake |-> s.connect_ack_time - s.connect_sent_time,
        puback |-> Null, total |-> Null, error |-> None]
  ELSE GetResultsDict_NoEarlyReturn(s)

\* MqttTestState.get_results_dict
GetResultsDict(s) ==
  IF IsSet(s.error)
  THEN [iteration |-> s.iteration, handshake |-> Null, puback |-> Null,
        total |-> Null, error |-> s.error]
  ELSE
    LET conn == s.connect_sent_time > 0 /\ s.connect_ack_time > 0
        pub  == conn /\ s.publish_sent_time > 0 /\ s.publish_ack_time > 0
        handshake_time == IF conn THEN s.connect_ack_time - s.connect_sent_time
                          ELSE Null
        puback_time == IF pub THEN s.publish_ack_time - s.publish_sent_time
                       ELSE Null
        total_time == IF pub THEN s.publish_ack_time - s.connect_sent_time
                      ELSE Null
        final_error ==
          IF conn
          THEN IF pub THEN None
               ELSE IF s.publish_sent_time > 0
                    THEN Err("PUBACK Incomplete/Timeout", 0)
                    ELSE Err("Publish Phase Not Reached", 0)
          ELSE IF s.connect_sent_time > 0
               THEN Err("Connect Incomplete/Timeout", 0)
               ELSE Err("Run Not Started", 0)
        final_error2 ==
          IF handshake_time = Null /\ final_error = None
          THEN Err("Incomplete run (missing connect timestamps)", 0)
          ELSE IF puback_time = Null /\ total_time = Null /\ final_error = None
                  /\ s.publish_sent_time > 0
               THEN Err("Incomplete run (missing puback timestamp)", 0)
               ELSE final_error
    IN [iteration |-> s.iteration, handshake |-> handshake_time,
        puback |-> puback_time, total |-> total_time, error |-> final_error2]

\* ================================================================ one trial

NoCb == [fn |-> "idle", step |-> "idle", arg |-> 0, now |-> 0]

\* nothing has happened yet: no callback delivered during (early) or after
\* (late) the connect wait, no rejection or disconnect notified (bad), no mid
\* acknowledged, no adapter call made or failed
NoHist == [early |-> FALSE, late |-> FALSE, bad |-> FALSE, acks |-> {},
           failed |-> {}, calls |-> {}]

TrialInit ==
  /\ state = NewState(1, ConfigName(Ciphers[1]))
  /\ pc = "tls_set"
  /\ connected = FALSE
  /\ puback_received = FALSE
  /\ msg_info_mid = NoMid
  /\ err_msg = None
  /\ ret_pc = "none"
  /\ cb = NoCb
  /\ clock = 1
  /\ loop_running = FALSE
  /\ hist = NoHist

\* the adapter call `what` was made / raised
Called(what) == [hist EXCEPT !.calls = @ \cup {what}]
Failed(what) == [hist EXCEPT !.calls = @ \cup {what}, !.failed = @ \cup {what}]

\* the caller starts record_error(msg) and continues at `ret` afterwards
CallRecordError(msg, ret) ==
  /\ err_msg' = msg
  /\ ret_pc' = ret
  /\ pc' = "re_59"

\* ---- caller thread ---------------------------------------------------------

\* client.tls_set(...) returns (lines 187-197; username is never configured)
TlsSetOk ==
  /\ pc = "tls_set"
  /\ pc' = "connect_sent"
  /\ hist' = Called("tls_set")
  /\ UNCHANGED <<state, connected, puback_received, msg_info_mid, err_msg,
                 ret_pc, cb, clock, loop_running, bvars>>

\* client.tls_set raising with an except clause that only logs: the trial goes
\* on to its connect phase
TlsSetFails_GoesOn ==
  /\ pc = "tls_set"
  /\ pc' = "connect_sent"
  /\ hist' = Failed("tls_set")
  /\ UNCHANGED <<state, connected, puback_received, msg_info_mid, err_msg,
                 ret_pc, cb, clock, loop_running, bvars>>

\* client.tls_set raises: ValueError (199-204) or another Exception (205-209)
TlsSetFails ==
  /\ pc = "tls_set"
  /\ \E m \in {"TLS Setup Error (Invalid Cipher?)", "TLS Setup Error"} :
        CallRecordError(Err(m, 0), "returned")
  /\ hist' = Failed("tls_set")
  /\ UNCHANGED <<state, connected, puback_received, msg_info_mid, cb, clock,
                 loop_running, bvars>>

\* state.record_connect_sent() (215)
RecordConnectSent ==
  /\ pc = "connect_sent"
  /\ state' = [state EXCEPT !.connect_sent_time = clock]
  /\ pc' = "connect"
  /\ UNCHANGED <<connected, puback_received, msg_info_mid, err_msg, ret_pc,
                 cb, clock, loop_running, hist, bvars>>

\* client.connect(...) returns (217-221)
ConnectOk ==
  /\ pc = "connect"
  /\ pc' = "loop_start"
  /\ hist' = Called("connect")
  /\ UNCHANGED <<state, connected, puback_received, msg_info_mid, err_msg,
                 ret_pc, cb, clock, loop_running, bvars>>

\* client.connect raises (223-226)
ConnectFails ==
  /\ pc = "connect"
  /\ CallRecordError(Err("Connect Error", 0), "loop_stop_force")
  /\ hist' = Failed("connect")
  /\ UNCHANGED <<state, connected, puback_received, msg_info_mid, cb, clock,
                 loop_running, bvars>>

\* client.loop_start() returns: the network-loop thread runs (222)
LoopStartOk ==
  /\ pc = "loop_start"
  /\ loop_running' = TRUE
  /\ pc' = "connect_wait"
  /\ hist' = Called("loop_start")
  /\ UNCHANGED <<state, connected, puback_received, msg_info_mid, err_msg,
                 ret_pc, cb, clock, bvars>>

\* client.loop_start raises (223-226)
LoopStartFails ==
  /\ pc = "loop_start"
  /\ CallRecordError(Err("Connect Error", 0), "loop_stop_force")
  /\ hist' = Failed("loop_start")
  /\ UNCHANGED <<state, connected, puback_received, msg_info_mid, cb, clock,
                 loop_running, bvars>>

\* client.loop_stop(force=True), errors ignored; return state (228-231)
LoopStopForce ==
  /\ pc = "loop_stop_force"
  /\ cb.fn = "idle"
  /\ loop_running' = FALSE
  /\ pc' = "returned"
  /\ hist' = Called("loop_stop_force")
  /\ UNCHANGED <<state, connected, puback_received, msg_info_mid, err_msg,
                 ret_pc, cb, clock, bvars>>

\* state.connect_event.wait(timeout=15) returns True: the gate is signaled (234)
ConnectWaitSignaled ==
  /\ pc = "connect_wait"
  /\ state.connect_event
  /\ connected' = TRUE
  /\ pc' = "connect_check"
  /\ UNCHANGED <<state, puback_received, msg_info_mid, err_msg, ret_pc, cb,
                 clock, loop_running, hist, bvars>>

\* state.connect_event.wait() with no timeout: the call does not return while
\* the gate is unsignaled
ConnectWaitTimeout_Never ==
  /\ pc = "connect_wait"
  /\ ~state.connect_event
  /\ FALSE
  /\ UNCHANGED vars

\* state.connect_event.wait(timeout=15) expires and returns False (234)
ConnectWaitTimeout ==
  /\ pc = "connect_wait"
  /\ ~state.connect_event
  /\ connected' = FALSE
  /\ pc' = "connect_check"
  /\ UNCHANGED <<state, puback_received, msg_info_mid, err_msg, ret_pc, cb,
                 clock, loop_running, hist, bvars>>

\* the check after the connect wait without its record_error call
ConnectCheck_NoTimeout ==
  /\ pc = "connect_check"
  /\ pc' = "publish_guard"
  /\ UNCHANGED <<state, connected, puback_received, msg_info_mid, err_msg,
                 ret_pc, cb, clock, loop_running, hist, bvars>>

\* if not connected and not state.error: record_error("Connect timeout") (236-241)
ConnectCheck ==
  /\ pc = "connect_check"
  /\ IF ~connected /\ ~IsSet(state.error)
     THEN CallRecordError(Err("Connect timeout", 0), "publish_guard")
     ELSE pc' = "publish_guard" /\ UNCHANGED <<err_msg, ret_pc>>
  /\ UNCHANGED <<state, connected, puback_received, msg_info_mid, cb, clock,
                 loop_running, hist, bvars>>

\* the guard of the publish phase reading only `connected`: if connected:
PublishGuard_IgnoresError ==
  /\ pc = "publish_guard"
  /\ pc' = IF connected THEN "publish_sent" ELSE "disconnect_guard"
  /\ UNCHANGED <<state, connected, puback_received, msg_info_mid, err_msg,
                 ret_pc, cb, clock, loop_running, hist, bvars>>

\* if connected and not state.error: (245)
PublishGuard ==
  /\ pc = "publish_guard"
  /\ pc' = IF connected /\ ~IsSet(state.error) THEN "publish_sent"
           ELSE "disconnect_guard"
  /\ UNCHANGED <<state, connected, puback_received, msg_info_mid, err_msg,
                 ret_pc, cb, clock, loop_running, hist, bvars>>

\* state.record_publish_sent() (256)
RecordPublishSent ==
  /\ pc = "publish_sent"
  /\ state' = [state EXCEPT !.publish_sent_time = clock]
  /\ pc' = "publish"
  /\ UNCHANGED <<connected, puback_received, msg_info_mid, err_msg, ret_pc,
                 cb, clock, loop_running, hist, bvars>>

\* msg_info = client.publish(..., qos=1) with rc == MQTT_ERR_SUCCESS (257-263)
PublishOk ==
  /\ pc = "publish"
  /\ \E mid \in Mids : msg_info_mid' = mid
  /\ pc' = "store_mid"
  /\ hist' = Called("publish")
  /\ UNCHANGED <<state, connected, puback_received, err_msg, ret_pc, cb,
                 clock, loop_running, bvars>>

\* publish raising with no except clause around it: the exception leaves
\* run_mqtt_test
PublishFails_Uncaught ==
  /\ pc = "publish"
  /\ pc' = "raised"
  /\ hist' = Failed("publish")
  /\ UNCHANGED <<state, connected, puback_received, msg_info_mid, err_msg,
                 ret_pc, cb, clock, loop_running, bvars>>

\* client.publish raises, or returns rc != MQTT_ERR_SUCCESS, which raises (262-263)
PublishFails ==
  /\ pc = "publish"
  /\ pc' = "publish_except"
  /\ hist' = Failed("publish")
  /\ UNCHANGED <<state, connected, puback_received, msg_info_mid, err_msg,
                 ret_pc, cb, clock, loop_running, bvars>>

\* state.message_id = msg_info.mid (265)
StoreMid ==
  /\ pc = "store_mid"
  /\ state' = [state EXCEPT !.message_id = msg_info_mid]
  /\ pc' = "publish_wait"
  /\ UNCHANGED <<connected, puback_received, msg_info_mid, err_msg, ret_pc,
                 cb, clock, loop_running, hist, bvars>>

\* state.publish_event.wait(timeout=15) returns True (269)
PublishWaitSignaled ==
  /\ pc = "publish_wait"
  /\ state.publish_event
  /\ puback_received' = TRUE
  /\ pc' = "puback_check"
  /\ UNCHANGED <<state, connected, msg_info_mid, err_msg, ret_pc, cb, clock,
                 loop_running, hist, bvars>>

\* state.publish_event.wait(timeout=15) expires and returns False (269)
PublishWaitTimeout ==
  /\ pc = "publish_wait"
  /\ ~state.publish_event
  /\ puback_received' = FALSE
  /\ pc' = "puback_check"
  /\ UNCHANGED <<state, connected, msg_info_mid, err_msg, ret_pc, cb, clock,
                 loop_running, hist, bvars>>

\* if not puback_received and not state.error: (271)
PubackCheck ==
  /\ pc = "puback_check"
  /\ pc' = IF ~puback_received /\ ~IsSet(state.error) THEN "puback_check2"
           ELSE "disconnect_guard"
  /\ UNCHANGED <<state, connected, puback_received, msg_info_mid, err_msg,
                 ret_pc, cb, clock, loop_running, hist, bvars>>

\* the expired publish wait recording nothing
PubackCheckAckTime_NoRecord ==
  /\ pc = "puback_check2"
  /\ pc' = "disconnect_guard"
  /\ UNCHANGED <<state, connected, puback_received, msg_info_mid, err_msg,
                 ret_pc, cb, clock, loop_running, hist, bvars>>

\* if state.publish_ack_time == 0: record_error("PUBACK timeout") (273-275)
PubackCheckAckTime ==
  /\ pc = "puback_check2"
  /\ IF state.publish_ack_time = 0
     THEN CallRecordError(Err("PUBACK timeout", 0), "disconnect_guard")
     ELSE pc' = "disconnect_guard" /\ UNCHANGED <<err_msg, ret_pc>>
  /\ UNCHANGED <<state, connected, puback_received, msg_info_mid, cb, clock,
                 loop_running, hist, bvars>>

\* except Exception: if not state.error: record_error(error_msg) (277-282)
PublishExcept ==
  /\ pc = "publish_except"
  /\ IF ~IsSet(state.error)
     THEN CallRecordError(Err("Publish Error", 0), "disconnect_guard")
     ELSE pc' = "disconnect_guard" /\ UNCHANGED <<err_msg, ret_pc>>
  /\ UNCHANGED <<state, connected, puback_received, msg_info_mid, cb, clock,
                 loop_running, hist, bvars>>

\* if state.connect_sent_time > 0: (286)
DisconnectGuard ==
  /\ pc = "disconnect_guard"
  /\ pc' = IF state.connect_sent_time > 0 THEN "disconnect" ELSE "returned"
  /\ UNCHANGED <<state, connected, puback_received, msg_info_mid, err_msg,
                 ret_pc, cb, clock, loop_running, hist, bvars>>

\* client.disconnect() returns; time.sleep(0.1) follows (289-291)
DisconnectOk ==
  /\ pc = "disconnect"
  /\ pc' = "loop_stop"
  /\ hist' = Called("disconnect")
  /\ UNCHANGED <<state, connected, puback_received, msg_info_mid, err_msg,
                 ret_pc, cb, clock, loop_running, bvars>>

\* client.disconnect() raising with no finally clause after it: the function
\* returns without calling loop_stop
DisconnectFails_NoFinally ==
  /\ pc = "disconnect"
  /\ pc' = "returned"
  /\ hist' = Failed("disconnect")
  /\ UNCHANGED <<state, connected, puback_received, msg_info_mid, err_msg,
                 ret_pc, cb, clock, loop_running, bvars>>

\* client.disconnect() raises: logged, then the finally clause (292-295)
DisconnectFails ==
  /\ pc = "disconnect"
  /\ pc' = "loop_stop"
  /\ hist' = Failed("disconnect")
  /\ UNCHANGED <<state, connected, puback_received, msg_info_mid, err_msg,
                 ret_pc, cb, clock, loop_running, bvars>>

\* client.loop_stop() joins the network-loop thread; return state (298, 303)
LoopStopOk ==
  /\ pc = "loop_stop"
  /\ cb.fn = "idle"
  /\ loop_running' = FALSE
  /\ pc' = "returned"
  /\ hist' = Called("loop_stop")
  /\ UNCHANGED <<state, connected, puback_received, msg_info_mid, err_msg,
                 ret_pc, cb, clock, bvars>>

\* client.loop_stop() raises before the thread is joined: ignored (299-300, 303)
LoopStopFails ==
  /\ pc = "loop_stop"
  /\ pc' = "returned"
  /\ hist' = Failed("loop_stop")
  /\ UNCHANGED <<state, connected, puback_received, msg_info_mid, err_msg,
                 ret_pc, cb, clock, loop_running, bvars>>

\* record_error on the caller thread: self.error = err_msg (59)
RecordErrorSet ==
  /\ pc = "re_59"
  /\ state' = [state EXCEPT !.error = err_msg]
  /\ pc' = "re_61"
  /\ UNCHANGED <<connected, puback_received, msg_info_mid, err_msg, ret_pc,
                 cb, clock, loop_running, hist, bvars>>

\* record_error clearing a connect gate it finds signaled instead of leaving it
RecordErrorConnectEvent_Toggle ==
  /\ pc = "re_61"
  /\ state' = [state EXCEPT !.connect_event = ~@]
  /\ pc' = "re_63"
  /\ UNCHANGED <<connected, puback_received, msg_info_mid, err_msg, ret_pc,
                 cb, clock, loop_running, hist, bvars>>

\* record_error: if not connect_event.is_set(): connect_event.set() (61-62)
RecordErrorConnectEvent ==
  /\ pc = "re_61"
  /\ state' = [state EXCEPT !.connect_event = TRUE]
  /\ pc' = "re_63"
  /\ UNCHANGED <<connected, puback_received, msg_info_mid, err_msg, ret_pc,
                 cb, clock, loop_running, hist, bvars>>

\* record_error: if not publish_event.is_set(): publish_event.set() (63-64)
RecordErrorPublishEvent ==
  /\ pc = "re_63"
  /\ state' = [state EXCEPT !.publish_event = TRUE]
  /\ pc' = ret_pc
  /\ UNCHANGED <<connected, puback_received, msg_info_mid, err_msg, ret_pc,
                 cb, clock, loop_running, hist, bvars>>

\* ---- network-loop thread (callbacks) ----------------------------------------

\* a callback is delivered, before the connect wait has returned or after
Delivered ==
  [hist EXCEPT !.early = @ \/ pc = "connect_wait",
               !.late = @ \/ pc /= "connect_wait"]

\* on_connect is called with reason_code rc (118-121, 130-132)
OnConnect ==
  /\ loop_running
  /\ cb.fn = "idle"
  /\ \E rc \in ReasonCodes :
       /\ cb' = [fn |-> "on_connect", step |-> IF rc = 0 THEN "48" ELSE "134",
                 arg |-> rc, now |-> 0]
       /\ hist' = [Delivered EXCEPT !.bad = @ \/ rc /= 0]
  /\ UNCHANGED <<state, pc, connected, puback_received, msg_info_mid, err_msg,
                 ret_pc, clock, loop_running, bvars>>

\* record_connect_ack: self.connect_ack_time = time.perf_counter() (48)
OnConnectAckTime ==
  /\ cb.fn = "on_connect" /\ cb.step = "48"
  /\ state' = [state EXCEPT !.connect_ack_time = clock]
  /\ cb' = [cb EXCEPT !.step = "49"]
  /\ UNCHANGED <<pc, connected, puback_received, msg_info_mid, err_msg, ret_pc,
                 clock, loop_running, hist, bvars>>

\* record_connect_ack: self.connect_event.set() (49); the rest only prints
OnConnectAckEvent ==
  /\ cb.fn = "on_connect" /\ cb.step = "49"
  /\ state' = [state EXCEPT !.connect_event = TRUE]
  /\ cb' = NoCb
  /\ UNCHANGED <<pc, connected, puback_received, msg_info_mid, err_msg, ret_pc,
                 clock, loop_running, hist, bvars>>

\* state.error = f"Connect RC: {reason_code}" (134)
OnConnectRejError ==
  /\ cb.fn = "on_connect" /\ cb.step = "134"
  /\ state' = [state EXCEPT !.error = Err("Connect RC", cb.arg)]
  /\ cb' = [cb EXCEPT !.step = "135"]
  /\ UNCHANGED <<pc, connected, puback_received, msg_info_mid, err_msg, ret_pc,
                 clock, loop_running, hist, bvars>>

\* state.connect_event.set() (135)
OnConnectRejEvent ==
  /\ cb.fn = "on_connect" /\ cb.step = "135"
  /\ state' = [state EXCEPT !.connect_event = TRUE]
  /\ cb' = NoCb
  /\ UNCHANGED <<pc, connected, puback_received, msg_info_mid, err_msg, ret_pc,
                 clock, loop_running, hist, bvars>>

\* on_disconnect is called: if reason_code != 0 and not state.error (137-141)
OnDisconnect ==
  /\ loop_running
  /\ cb.fn = "idle"
  /\ \E rc \in ReasonCodes :
       cb' = IF rc /= 0 /\ ~IsSet(state.error)
             THEN [fn |-> "on_disconnect", step |-> "143", arg |-> rc, now |-> 0]
             ELSE NoCb
  /\ hist' = [Delivered EXCEPT !.bad = TRUE]
  /\ UNCHANGED <<state, pc, connected, puback_received, msg_info_mid, err_msg,
                 ret_pc, clock, loop_running, bvars>>

\* current_time = time.perf_counter() (143)
OnDisconnectNow ==
  /\ cb.fn = "on_disconnect" /\ cb.step = "143"
  /\ cb' = [cb EXCEPT !.now = clock, !.step = "146"]
  /\ UNCHANGED <<state, pc, connected, puback_received, msg_info_mid, err_msg,
                 ret_pc, clock, loop_running, hist, bvars>>

\* the grace-window test without its elif branch (148-149)
DisconnectError_PubackOnly(s, current_time) ==
  ~(s.publish_ack_time > 0 /\ current_time - s.publish_ack_time < GraceWindow)

\* the grace-window test of on_disconnect (145-149)
DisconnectError(s, current_time) ==
  IF s.publish_ack_time > 0 /\ current_time - s.publish_ack_time < GraceWindow
  THEN FALSE
  ELSE IF s.connect_ack_time > 0 /\ s.publish_sent_time = 0
          /\ current_time - s.connect_ack_time < GraceWindow
       THEN FALSE
       ELSE TRUE

\* if disconnect_error: state.record_error(...) (145-154)
OnDisconnectGrace ==
  /\ cb.fn = "on_disconnect" /\ cb.step = "146"
  /\ cb' = IF DisconnectError(state, cb.now) THEN [cb EXCEPT !.step = "59"]
           ELSE NoCb
  /\ UNCHANGED <<state, pc, connected, puback_received, msg_info_mid, err_msg,
                 ret_pc, clock, loop_running, hist, bvars>>

\* record_error on the callback thread: self.error = err_msg (59)
CbRecordErrorSet ==
  /\ cb.fn = "on_disconnect" /\ cb.step = "59"
  /\ state' = [state EXCEPT !.error = Err("Unexpected disconnect", cb.arg)]
  /\ cb' = [cb EXCEPT !.step = "61"]
  /\ UNCHANGED <<pc, connected, puback_received, msg_info_mid, err_msg, ret_pc,
                 clock, loop_running, hist, bvars>>

\* record_error on the callback thread: connect_event.set() (61-62)
CbRecordErrorConnectEvent ==
  /\ cb.fn = "on_disconnect" /\ cb.step = "61"
  /\ state' = [state EXCEPT !.connect_event = TRUE]
  /\ cb' = [cb EXCEPT !.step = "63"]
  /\ UNCHANGED <<pc, connected, puback_received, msg_info_mid, err_msg, ret_pc,
                 clock, loop_running, hist, bvars>>

\* record_error on the callback thread returning without its lines 63-64
CbRecordErrorPublishEvent_Skip ==
  /\ cb.fn = "on_disconnect" /\ cb.step = "63"
  /\ cb' = NoCb
  /\ UNCHANGED <<state, pc, connected, puback_received, msg_info_mid, err_msg,
                 ret_pc, clock, loop_running, hist, bvars>>

\* record_error on the callback thread: publish_event.set() (63-64)
CbRecordErrorPublishEvent ==
  /\ cb.fn = "on_disconnect" /\ cb.step = "63"
  /\ state' = [state EXCEPT !.publish_event = TRUE]
  /\ cb' = NoCb
  /\ UNCHANGED <<pc, connected, puback_received, msg_info_mid, err_msg, ret_pc,
                 clock, loop_running, hist, bvars>>

\* on_publish without its comparison of mid with state.message_id
OnPublish_AnyMid ==
  /\ loop_running
  /\ cb.fn = "idle"
  /\ \E mid \in Mids :
       /\ cb' = [fn |-> "on_publish", step |-> "55", arg |-> mid, now |-> 0]
       /\ hist' = [Delivered EXCEPT !.acks = @ \cup {mid}]
  /\ UNCHANGED <<state, pc, connected, puback_received, msg_info_mid, err_msg,
                 ret_pc, clock, loop_running, bvars>>

\* on_publish is called with mid: if state.message_id == mid (157-161)
OnPublish ==
  /\ loop_running
  /\ cb.fn = "idle"
  /\ \E mid \in Mids :
       /\ cb' = IF state.message_id = mid
                THEN [fn |-> "on_publish", step |-> "55", arg |-> mid, now |-> 0]
                ELSE NoCb
       /\ hist' = [Delivered EXCEPT !.acks = @ \cup {mid}]
  /\ UNCHANGED <<state, pc, connected, puback_received, msg_info_mid, err_msg,
                 ret_pc, clock, loop_running, bvars>>

\* record_publish_ack signaling the gate first, with the timestamp not yet
\* written
OnPublishAckTime_EventFirst ==
  /\ cb.fn = "on_publish" /\ cb.step = "55"
  /\ state' = [state EXCEPT !.publish_event = TRUE]
  /\ cb' = [cb EXCEPT !.step = "56"]
  /\ UNCHANGED <<pc, connected, puback_received, msg_info_mid, err_msg, ret_pc,
                 clock, loop_running, hist, bvars>>

\* record_publish_ack: self.publish_ack_time = time.perf_counter() (55)
OnPublishAckTime ==
  /\ cb.fn = "on_publish" /\ cb.step = "55"
  /\ state' = [state EXCEPT !.publish_ack_time = clock]
  /\ cb' = [cb EXCEPT !.step = "56"]
  /\ UNCHANGED <<pc, connected, puback_received, msg_info_mid, err_msg, ret_pc,
                 clock, loop_running, hist, bvars>>

\* record_publish_ack: self.publish_event.set() (56)
OnPublishAckEvent ==
  /\ cb.fn = "on_publish" /\ cb.step = "56"
  /\ state' = [state EXCEPT !.publish_event = TRUE]
  /\ cb' = NoCb
  /\ UNCHANGED <<pc, connected, puback_received, msg_info_mid, err_msg, ret_pc,
                 clock, loop_running, hist, bvars>>

\* ---- time ---------------------------------------------------------------------

\* a second passes while the trial is running
Tick ==
  /\ clock < MaxClock
  /\ pc /= "returned" \/ loop_running \/ cb.fn /= "idle"
  /\ clock' = clock + 1
  /\ UNCHANGED <<state, pc, connected, puback_received, msg_info_mid, err_msg,
                 ret_pc, cb, loop_running, hist, bvars>>

\* the steps of the caller thread, run_mqtt_test and the record_error it calls
CallerNext ==
  \/ TlsSetOk \/ TlsSetFails \/ RecordConnectSent
  \/ ConnectOk \/ ConnectFails \/ LoopStartOk \/ LoopStartFails \/ LoopStopForce
  \/ ConnectWaitSignaled \/ ConnectWaitTimeout \/ ConnectCheck \/ PublishGuard
  \/ RecordPublishSent \/ PublishOk \/ PublishFails \/ StoreMid
  \/ PublishWaitSignaled \/ PublishWaitTimeout \/ PubackCheck
  \/ PubackCheckAckTime \/ PublishExcept
  \/ DisconnectGuard \/ DisconnectOk \/ DisconnectFails
  \/ LoopStopOk \/ LoopStopFails
  \/ RecordErrorSet \/ RecordErrorConnectEvent \/ RecordErrorPublishEvent

\* the trial, as one next-state relation
TrialNext ==
  \/ TlsSetOk \/ TlsSetFails \/ RecordConnectSent
  \/ ConnectOk \/ ConnectFails \/ LoopStartOk \/ LoopStartFails \/ LoopStopForce
  \/ ConnectWaitSignaled \/ ConnectWaitTimeout \/ ConnectCheck \/ PublishGuard
  \/ RecordPublishSent \/ PublishOk \/ PublishFails \/ StoreMid
  \/ PublishWaitSignaled \/ PublishWaitTimeout \/ PubackCheck
  \/ PubackCheckAckTime \/ PublishExcept
  \/ DisconnectGuard \/ DisconnectOk \/ DisconnectFails
  \/ LoopStopOk \/ LoopStopFails
  \/ RecordErrorSet \/ RecordErrorConnectEvent \/ RecordErrorPublishEvent
  \/ OnConnect \/ OnConnectAckTime \/ OnConnectAckEvent
  \/ OnConnectRejError \/ OnConnectRejEvent
  \/ OnDisconnect \/ OnDisconnectNow \/ OnDisconnectGrace
  \/ CbRecordErrorSet \/ CbRecordErrorConnectEvent \/ CbRecordErrorPublishEvent
  \/ OnPublish \/ OnPublishAckTime \/ OnPublishAckEvent
  \/ Tick

\* ================================================================ the batch

\* iterations entered in the form: 1..MaxIter (the GUI accepts 1..10000)
MaxIter == 2

\* the worker threads that can be alive at once; a new thread takes the
\* lowest slot that is free
Workers == {1, 2}

\* the cipher suites ticked in the form, in the dict's order
Selections == {<<Ciphers[1]>>, <<Ciphers[1], Ciphers[2]>>}

\* the delay entered in the form (the GUI accepts 0..3600)
Delays == {0, 2}

\* a Python dict as the sequence of its items in insertion order: d[k] = v
DictSet(d, k, v) ==
  IF \E j \in 1..Len(d) : d[j].key = k
  THEN [j \in 1..Len(d) |-> IF d[j].key = k THEN [key |-> k, value |-> v] ELSE d[j]]
  ELSE Append(d, [key |-> k, value |-> v])

RECURSIVE BuildConfigs(_, _)
\* test_configs: for cipher in tester.selected_ciphers: test_configs[name] = config
BuildConfigs(selected, d) ==
  IF selected = <<>> THEN d
  ELSE BuildConfigs(Tail(selected),
                    DictSet(d, ConfigName(Head(selected)), Head(selected)))

\* a worker thread that does not run: it was never started, or it has
\* returned and its locals are gone
NoFrame ==
  [pc |-> "unborn", iterations |-> 0, delay |-> 0, test_configs |-> <<>>,
   cfg |-> 0, i |-> 0, iteration_results |-> <<>>, all_run_data |-> <<>>,
   trials |-> 0, sleeps |-> 0]

\* thread.is_alive()
IsAlive(w) == worker[w].pc \notin {"unborn", "done"}

\* nothing posted to the GUI yet
NoReport == [outcome |-> "none", cfg |-> 0]

\* nothing handed to export_results_to_excel yet
NoExport == [calls |-> 0, sheets |-> <<>>, rows |-> 0, written |-> FALSE]

BatchInit ==
  /\ form \in [iterations : 1..MaxIter, delay : Delays, selected : Selections]
  /\ test_cancelled = FALSE
  /\ test_thread = 0
  /\ worker = [w \in Workers |-> NoFrame]
  /\ sink = [w \in Workers |-> NoExport]
  /\ reported = [w \in Workers |-> NoReport]

\* the MqttTestState objects run_mqtt_test returns, as far as the batch tells
\* them apart: a full success and a failure (here a publish timeout)
ReturnedStates(i, name) ==
  { [NewState(i, name) EXCEPT !.connect_sent_time = 1, !.connect_ack_time = 2,
        !.publish_sent_time = 2, !.publish_ack_time = 3, !.message_id = 1,
        !.connect_event = TRUE, !.publish_event = TRUE],
    [NewState(i, name) EXCEPT !.connect_sent_time = 1, !.connect_ack_time = 2,
        !.publish_sent_time = 2, !.message_id = 1,
        !.error = Err("PUBACK timeout", 0),
        !.connect_event = TRUE, !.publish_event = TRUE] }

\* the config_name the worker is at
CurrentConfig(f) == f.test_configs[f.cfg].key

\* run_performance_test: the Start button with a valid form; the progress
\* display (completed_tests, the progress bar) is left out (747-815)
StartTest(w) ==
  /\ ~IsAlive(w)
  /\ \A v \in Workers : v < w => IsAlive(v)
  /\ worker' = [worker EXCEPT ![w] =
                  [NoFrame EXCEPT !.pc = "cfg_check",
                                  !.iterations = form.iterations,
                                  !.delay = form.delay,
                                  !.test_configs = BuildConfigs(form.selected, <<>>),
                                  !.cfg = 1]]
  /\ test_cancelled' = FALSE
  /\ test_thread' = w
  /\ sink' = [sink EXCEPT ![w] = NoExport]
  /\ reported' = [reported EXCEPT ![w] = NoReport]
  /\ UNCHANGED <<form, tvars>>

\* cancel_performance_test: the Cancel button (891-896)
CancelTest ==
  /\ test_thread /= 0
  /\ IsAlive(test_thread)
  /\ test_cancelled' = TRUE
  /\ UNCHANGED <<form, test_thread, worker, sink, reported, tvars>>

\* the worker thread returns after posting `outcome` to the GUI
Return(w, outcome) ==
  /\ reported' = [reported EXCEPT ![w] =
                    [outcome |-> outcome, cfg |-> worker[w].cfg]]
  /\ worker' = [worker EXCEPT ![w] = [NoFrame EXCEPT !.pc = "done"]]

\* a cancelled worker that still calls the export with what it has collected
ReportCancelled_FlushPartial(w) ==
  /\ Return(w, "cancelled")
  /\ sink' = [sink EXCEPT ![w].calls = 1,
                          ![w].sheets = [j \in 1..Len(worker[w].all_run_data) |->
                                           worker[w].all_run_data[j].key]]

\* self.root.after(0, self._performance_test_cancelled); return (844-845,
\* 852-853, 878): nothing is handed to the export
ReportCancelled(w) ==
  /\ Return(w, "cancelled")
  /\ UNCHANGED sink

\* for config_name, config in test_configs.items(): if self.test_cancelled (841-847)
CfgCheck(w) ==
  /\ worker[w].pc = "cfg_check"
  /\ IF worker[w].cfg > Len(worker[w].test_configs)
     THEN /\ worker' = [worker EXCEPT ![w].pc = "export_check"]
          /\ UNCHANGED <<reported, sink>>
     ELSE IF test_cancelled
          THEN ReportCancelled(w)
          ELSE /\ worker' = [worker EXCEPT ![w].pc = "iter_check", ![w].i = 1,
                                           ![w].iteration_results = <<>>]
               /\ UNCHANGED <<reported, sink>>
  /\ UNCHANGED <<form, test_cancelled, test_thread, tvars>>

\* the loop body appending only the results of trials without an error
Collect_SkipFailed(f, run_state) ==
  LET g == IF IsSet(run_state.error) THEN f
           ELSE [f EXCEPT !.iteration_results = Append(@, GetResultsDict(run_state))]
  IN IF g.delay > 0 /\ g.i < g.iterations
     THEN [g EXCEPT !.pc = "sleep", !.sleeps = @ + 1]
     ELSE [g EXCEPT !.pc = "iter_check", !.i = @ + 1]

\* the loop body sleeping after every iteration, the last one included
Collect_SleepsAfterLast(f, run_state) ==
  LET g == [f EXCEPT !.iteration_results = Append(@, GetResultsDict(run_state))]
  IN IF g.delay > 0
     THEN [g EXCEPT !.pc = "sleep", !.sleeps = @ + 1]
     ELSE [g EXCEPT !.pc = "iter_check", !.i = @ + 1]

\* iteration_results.append(run_state.get_results_dict()) and the delay test:
\* if tester.delay > 0 and i < tester.iterations: time.sleep (861-865)
Collect(f, run_state) ==
  LET g == [f EXCEPT !.iteration_results = Append(@, GetResultsDict(run_state))]
  IN IF g.delay > 0 /\ g.i < g.iterations
     THEN [g EXCEPT !.pc = "sleep", !.sleeps = @ + 1]
     ELSE [g EXCEPT !.pc = "iter_check", !.i = @ + 1]

\* run_mqtt_test(i, config_name, ...) is called: the trial is in flight (860)
CallRunMqttTest(f) == [f EXCEPT !.trials = @ + 1, !.pc = "in_flight"]

\* the iteration loop without its read of self.test_cancelled
IterCheck_NoCancel(w) ==
  /\ worker[w].pc = "iter_check"
  /\ IF worker[w].i > worker[w].iterations
     THEN worker' = [worker EXCEPT
                 ![w].all_run_data = DictSet(@, CurrentConfig(worker[w]),
                                             worker[w].iteration_results),
                 ![w].cfg = @ + 1, ![w].pc = "cfg_check"]
     ELSE worker' = [worker EXCEPT ![w] = CallRunMqttTest(@)]
  /\ UNCHANGED <<reported, sink, form, test_cancelled, test_thread, tvars>>

\* for i in range(1, tester.iterations + 1): if self.test_cancelled (849-860);
\* after the last iteration: all_run_data[config_name] = iteration_results (867)
IterCheck(w) ==
  /\ worker[w].pc = "iter_check"
  /\ IF worker[w].i > worker[w].iterations
     THEN /\ worker' = [worker EXCEPT
                 ![w].all_run_data = DictSet(@, CurrentConfig(worker[w]),
                                             worker[w].iteration_results),
                 ![w].cfg = @ + 1, ![w].pc = "cfg_check"]
          /\ UNCHANGED <<reported, sink>>
     ELSE IF test_cancelled
          THEN ReportCancelled(w)
          ELSE /\ worker' = [worker EXCEPT ![w] = CallRunMqttTest(@)]
               /\ UNCHANGED <<reported, sink>>
  /\ UNCHANGED <<form, test_cancelled, test_thread, tvars>>

\* run_mqtt_test returns after its loop_stop (860-865)
TrialReturns(w) ==
  /\ worker[w].pc = "in_flight"
  /\ \E s \in ReturnedStates(worker[w].i, CurrentConfig(worker[w])) :
       worker' = [worker EXCEPT ![w] = Collect(@, s)]
  /\ UNCHANGED <<form, test_cancelled, test_thread, sink, reported, tvars>>

\* time.sleep(tester.delay) is over (865)
DelayDone(w) ==
  /\ worker[w].pc = "sleep"
  /\ worker' = [worker EXCEPT ![w].pc = "iter_check", ![w].i = @ + 1]
  /\ UNCHANGED <<form, test_cancelled, test_thread, sink, reported, tvars>>

\* if not self.test_cancelled: ... else: report cancelled (870, 877-878)
ExportCheck(w) ==
  /\ worker[w].pc = "export_check"
  /\ IF test_cancelled
     THEN ReportCancelled(w)
     ELSE worker' = [worker EXCEPT ![w].pc = "export"] /\ UNCHANGED <<reported, sink>>
  /\ UNCHANGED <<form, test_cancelled, test_thread, tvars>>

RECURSIVE Rows(_)
\* the number of result rows in all_run_data
Rows(d) == IF d = <<>> THEN 0 ELSE Len(Head(d).value) + Rows(Tail(d))

\* what the sink is given: one sheet per configuration, one row per result
Exported(d, written) ==
  [calls |-> 1, sheets |-> [j \in 1..Len(d) |-> d[j].key], rows |-> Rows(d),
   written |-> written]

\* export_results_to_excel(all_run_data, ...), which catches its own write
\* errors, then root.after(0, self._performance_test_completed) (871-876)
Export(w) ==
  /\ worker[w].pc = "export"
  /\ \E written \in BOOLEAN :
       sink' = [sink EXCEPT ![w] = Exported(worker[w].all_run_data, written)]
  /\ Return(w, "completed")
  /\ UNCHANGED <<form, test_cancelled, test_thread, tvars>>

\* the steps of the worker thread w
WorkerNext(w) ==
  \/ CfgCheck(w) \/ IterCheck(w) \/ TrialReturns(w)
  \/ DelayDone(w) \/ ExportCheck(w) \/ Export(w)

BatchNext ==
  \/ \E w \in Workers : StartTest(w)
  \/ CancelTest
  \/ \E w \in Workers : CfgCheck(w)
  \/ \E w \in Workers : IterCheck(w)
  \/ \E w \in Workers : TrialReturns(w)
  \/ \E w \in Workers : DelayDone(w)
  \/ \E w \in Workers : ExportCheck(w)
  \/ \E w \in Workers : Export(w)

\* =========================================================== the statistics

\* the longest column of durations
MaxLen == 4

\* significant bits of a float: binary64 has 53, the model keeps 3, so that
\* sums of small samples are rounded the way sums of real durations are
MantissaBits == 3

\* the durations a column holds (None apart): small ones, whose sums are
\* exact, and one at which the spacing of floats becomes 2
Samples == {1, 2, 3, 4, 2 ^ MantissaBits}

RECURSIVE BitLen(_)
\* the number of bits of x
BitLen(x) == IF x = 0 THEN 0 ELSE 1 + BitLen(x \div 2)

\* x rounded to the nearest float, ties to even: the result of every float
\* operation numpy performs
Fl(x) ==
  IF BitLen(x) <= MantissaBits THEN x
  ELSE LET ulp == 2 ^ (BitLen(x) - MantissaBits)
           q == x \div ulp
           r == x % ulp
       IN IF 2 * r < ulp THEN q * ulp
          ELSE IF 2 * r > ulp THEN (q + 1) * ulp
          ELSE IF q % 2 = 0 THEN q * ulp ELSE (q + 1) * ulp

\* a quotient num / den, kept as the pair it is computed from
Frac(n, d) == [num |-> n, den |-> d]

\* None where a quotient is expected
NoneFrac == Frac(Null, Null)

RECURSIVE AddReduce(_)
\* np.add.reduce of a non-empty array of fewer than 8 floats: the elements are
\* added from left to right, each sum rounded
AddReduce(a) ==
  IF Len(a) = 1 THEN a[1]
  ELSE Fl(AddReduce(SubSeq(a, 1, Len(a) - 1)) + a[Len(a)])

RECURSIVE Insert(_, _)
\* x put in its place in the sorted sequence s
Insert(x, s) ==
  IF s = <<>> THEN <<x>>
  ELSE IF x <= Head(s) THEN <<x>> \o s
  ELSE <<Head(s)>> \o Insert(x, Tail(s))

RECURSIVE Sorted(_)
\* np.sort
Sorted(a) == IF a = <<>> THEN <<>> ELSE Insert(Head(a), Sorted(Tail(a)))

\* valid_data = [d for d in data_list if d is not None and ...] (309)
ValidData(l) == SelectSeq(l, LAMBDA d : d /= Null)

\* np.mean(data): add.reduce(data) / n (319)
NpMean(a) == Frac(AddReduce(a), Len(a))

\* np.median taking the upper middle element of an even number of samples
\* instead of the mean of the two
NpMedian_UpperMiddle(a) ==
  LET s == Sorted(a)
      n == Len(a)
  IN IF n % 2 = 1 THEN Frac(s[(n + 1) \div 2], 1)
     ELSE Frac(s[n \div 2 + 1], 1)

\* np.median(data): the mean of the middle element or of the two middle
\* elements of the sorted array (320)
NpMedian(a) ==
  LET s == Sorted(a)
      n == Len(a)
  IN IF n % 2 = 1 THEN Frac(s[(n + 1) \div 2], 1)
     ELSE Frac(Fl(s[n \div 2] + s[n \div 2 + 1]), 2)

\* np.std(data): sqrt(add.reduce((data - mean) ** 2) / n), carried as its
\* square; the deviations are taken in units of 1/n, so that they are whole (321)
NpStd(a) ==
  LET n == Len(a)
      total == AddReduce(a)
      sq == [i \in 1..n |-> Fl((n * a[i] - total) * (n * a[i] - total))]
  IN Frac(AddReduce(sq), n * n * n)

\* np.percentile(data, 95), linear interpolation between the order statistics
\* around the index 0.95 * (n - 1), in hundredths (324)
NpPercentile95(a) ==
  LET s == Sorted(a)
      n == Len(a)
      lo == (95 * (n - 1)) \div 100
      g == (95 * (n - 1)) % 100
  IN IF g = 0 THEN Frac(100 * s[lo + 1], 100)
     ELSE Frac(100 * s[lo + 1] + g * (s[lo + 2] - s[lo + 1]), 100)

\* calculate_statistics counting the entries of data_list instead of those of
\* valid_data
CalculateStatistics_CountsAll(l) ==
  LET valid_data == ValidData(l)
  IN IF valid_data = <<>>
     THEN [Mean |-> NoneFrac, Median |-> NoneFrac, StdDev |-> NoneFrac,
           Min |-> Null, Max |-> Null, Percentile95 |-> NoneFrac,
           Count |-> Len(l)]
     ELSE [Mean |-> NpMean(valid_data), Median |-> NpMedian(valid_data),
           StdDev |-> NpStd(valid_data), Min |-> Sorted(valid_data)[1],
           Max |-> Sorted(valid_data)[Len(valid_data)],
           Percentile95 |-> NpPercentile95(valid_data),
           Count |-> Len(l)]

\* calculate_statistics (306-325)
CalculateStatistics(l) ==
  LET valid_data == ValidData(l)
  IN IF valid_data = <<>>
     THEN [Mean |-> NoneFrac, Median |-> NoneFrac, StdDev |-> NoneFrac,
           Min |-> Null, Max |-> Null, Percentile95 |-> NoneFrac,
           Count |-> Len(valid_data)]
     ELSE [Mean |-> NpMean(valid_data), Median |-> NpMedian(valid_data),
           StdDev |-> NpStd(valid_data), Min |-> Sorted(valid_data)[1],
           Max |-> Sorted(valid_data)[Len(valid_data)],
           Percentile95 |-> NpPercentile95(valid_data),
           Count |-> Len(valid_data)]

\* calculate_statistics was not called yet: there is no dictionary, not even
\* a count
NotCalled ==
  [Mean |-> NoneFrac, Median |-> NoneFrac, StdDev |-> NoneFrac, Min |-> Null,
   Max |-> Null, Percentile95 |-> NoneFrac, Count |-> Null]

\* the columns of at most MaxLen entries, each a duration or None
Columns == UNION {[1..n -> Samples \cup {Null}] : n \in 0..MaxLen}

\* get_results_dict has not been called: no result carries iteration 0
NotRead ==
  [iteration |-> 0, handshake |-> Null, puback |-> Null, total |-> Null,
   error |-> None]

\* no column is being reduced
StatsIdle == data_list = <<>> /\ stats = NotCalled /\ results_dict = NotRead

StatsInit ==
  data_list \in Columns /\ stats = NotCalled /\ results_dict = NotRead

\* stats = calculate_statistics(data_list), as the export calls it per column
Calculate ==
  /\ stats = NotCalled
  /\ stats' = CalculateStatistics(data_list)
  /\ UNCHANGED <<data_list, results_dict, tstate, bstate>>

\* the same samples are handed over in another order: two neighbours of the
\* column change places; the dictionary returned before is kept for comparison
Reorder ==
  /\ stats /= NotCalled
  /\ \E i \in 1..(Len(data_list) - 1) :
       /\ data_list[i] /= data_list[i + 1]
       /\ data_list' = [data_list EXCEPT ![i] = data_list[i + 1],
                                         ![i + 1] = data_list[i]]
  /\ UNCHANGED <<stats, results_dict, tstate, bstate>>

StatsNext == Calculate \/ Reorder

\* ---- the summary of a sheet -----------------------------------------------

\* float('nan'): what pandas puts for None in a column that holds numbers
NaN == -2

\* df['handshake'].tolist() for df = pd.DataFrame(results_list): a column of
\* None only stays a column of objects, None; in a column with at least one
\* number the None entries become NaN (29-33)
HandshakeColumn(results_list) ==
  LET raw == [k \in 1..Len(results_list) |-> results_list[k].handshake]
  IN IF \A k \in 1..Len(raw) : raw[k] = Null THEN raw
     ELSE [k \in 1..Len(raw) |-> IF raw[k] = Null THEN NaN ELSE raw[k]]

\* successful_runs = handshake_stats['Count'], the length of valid_data: the
\* entries that are not None and are an int or a float, as NaN is (33, 36)
SuccessfulRuns(results_list) == Len(ValidData(HandshakeColumn(results_list)))

\* failed_runs = len(df) - successful_runs (37)
FailedRuns(results_list) == Len(results_list) - SuccessfulRuns(results_list)

\* ---- get_results_dict on any MqttTestState ---------------------------------

\* every MqttTestState, reachable in a trial or not: each timestamp unset (0)
\* or set, an error recorded or not, each gate signaled or not
AnyState ==
  {[NewState(1, ConfigName(Ciphers[1])) EXCEPT
      !.connect_sent_time = cs, !.connect_ack_time = ca,
      !.publish_sent_time = ps, !.publish_ack_time = pa,
      !.error = e, !.connect_event = ce, !.publish_event = pe] :
    cs \in 0..MaxClock, ca \in 0..MaxClock, ps \in 0..MaxClock,
    pa \in 0..MaxClock, e \in {None, Err("PUBACK timeout", 0)},
    ce \in BOOLEAN, pe \in BOOLEAN}

\* the orchestrator reads the result: run_state.get_results_dict()
ReadResults ==
  /\ results_dict = NotRead
  /\ results_dict' = GetResultsDict(state)
  /\ UNCHANGED <<data_list, stats, tstate, bstate>>

\* ============================================================ specifications

\* one trial; the batch is not started and its form is left as it is
Init ==
  /\ TrialInit
  /\ BatchInit
  /\ form = [iterations |-> 1, delay |-> 0, selected |-> <<Ciphers[1]>>]
  /\ StatsIdle
Next == TrialNext
Spec == Init /\ [][Next]_vars

\* the trial with a caller thread that keeps running: each of its calls
\* returns or raises, and a wait returns when its gate is signaled or its
\* timeout expires; nothing is assumed of the callbacks
FairSpec == Spec /\ WF_vars(CallerNext)

\* the batch; its trials are summarised by CallRunMqttTest and TrialReturns
BatchStart == TrialInit /\ BatchInit /\ StatsIdle
BatchSpec == BatchStart /\ [][BatchNext]_vars

\* the batch with worker threads that keep running: a trial in flight returns
\* (run_mqtt_test terminates) and a sleep ends
FairBatchSpec == BatchSpec /\ \A w \in Workers : WF_vars(WorkerNext(w))

\* calculate_statistics on every column; no trial and no batch is running
StatsStart ==
  /\ TrialInit
  /\ BatchInit
  /\ form = [iterations |-> 1, delay |-> 0, selected |-> <<Ciphers[1]>>]
  /\ StatsInit
StatsSpec == StatsStart /\ [][StatsNext]_vars

\* get_results_dict on every MqttTestState, after run_mqtt_test has returned it
ResultsStart ==
  /\ state \in AnyState
  /\ pc = "returned"
  /\ connected = FALSE
  /\ puback_received = FALSE
  /\ msg_info_mid = NoMid
  /\ err_msg = None
  /\ ret_pc = "none"
  /\ cb = NoCb
  /\ clock = 1
  /\ loop_running = FALSE
  /\ hist = NoHist
  /\ BatchInit
  /\ form = [iterations |-> 1, delay |-> 0, selected |-> <<Ciphers[1]>>]
  /\ StatsIdle
ResultsNext == ReadResults
ResultsSpec == ResultsStart /\ [][ResultsNext]_vars

\* ==================================================================== claims

\* the result record of the trial
Result == GetResultsDict(state)

AllDurations(r) == r.handshake /= Null /\ r.puback /= Null /\ r.total /= Null
NoDurations(r) == r.handshake = Null /\ r.puback = Null /\ r.total = Null

\* errors of the publish phase
PublishPhaseErrors ==
  {"PUBACK timeout", "Publish Error", "PUBACK Incomplete/Timeout",
   "Publish Phase Not Reached", "Incomplete run (missing puback timestamp)"}

\* connect and loop_start were called and neither raised
ConnectIssued ==
  /\ {"connect", "loop_start"} \subseteq hist.calls
  /\ hist.failed \cap {"connect", "loop_start"} = {}

\* C1: when run_mqtt_test has returned, the result has either all three
\* durations and no error, or an error and not all three durations, never
\* both and never neither; with an error, puback and total are null, and a
\* handshake duration goes only with an error of the publish phase.
C1_ResultShape ==
  pc = "returned" =>
    LET r == Result IN
    /\ (AllDurations(r) /\ r.error = None) /= (r.error /= None /\ ~AllDurations(r))
    /\ r.error /= None =>
         /\ r.puback = Null /\ r.total = Null
         /\ r.handshake /= Null => r.error.msg \in PublishPhaseErrors

\* C1 witness: a trial that returned with an error recorded after its connect
\* was acknowledged and its publish was sent
C1_Witness ==
  /\ pc = "returned"
  /\ Result.error /= None
  /\ state.connect_ack_time > 0
  /\ state.publish_sent_time > 0

\* C2 (as claimed): connect was acknowledged with success, publish returned a
\* mid, and every on_publish delivered carried another mid (no rejection, no
\* disconnect, no adapter failure): the result has the publish-timeout error,
\* a handshake duration connect_ack_time - connect_sent_time, and null puback
\* and total.
C2_MismatchedAckKeepsHandshake ==
  ( /\ pc = "returned"
    /\ connected
    /\ state.connect_ack_time > 0
    /\ "publish" \in hist.calls
    /\ hist.failed = {}
    /\ ~hist.bad
    /\ hist.acks /= {}
    /\ msg_info_mid \notin hist.acks )
  => /\ Result.error = Err("PUBACK timeout", 0)
     /\ Result.handshake = state.connect_ack_time - state.connect_sent_time
     /\ Result.puback = Null
     /\ Result.total = Null

\* C3 (as claimed): connect was issued without exception and no callback was
\* delivered before the connect wait expired: the result has the connect
\* timeout error, null durations, and publish was never called.
C3_Original ==
  (pc = "returned" /\ ConnectIssued /\ ~hist.early)
  => /\ Result.error = Err("Connect timeout", 0)
     /\ NoDurations(Result)
     /\ "publish" \notin hist.calls

\* C3 (amended): connect was issued without exception and no callback was
\* delivered before the connect wait expired: the result has an error, null
\* durations, and publish was never called; the error is the connect timeout
\* when no callback was delivered after the expiry either.
C3_ConnectTimeout ==
  (pc = "returned" /\ ConnectIssued /\ ~hist.early)
  => /\ Result.error /= None
     /\ NoDurations(Result)
     /\ "publish" \notin hist.calls
     /\ ~hist.late => Result.error = Err("Connect timeout", 0)

\* C3 witness: a trial whose connect wait expired with no callback delivered
\* at all, returned with the connect timeout
C3_Witness ==
  /\ pc = "returned"
  /\ ConnectIssued
  /\ ~hist.early /\ ~hist.late
  /\ Result.error = Err("Connect timeout", 0)

\* C4 (as claimed): no failure leaves run_mqtt_test as an exception, and
\* whichever adapter call failed (tls_set, connect, loop_start, publish,
\* disconnect, loop_stop) the result of the returned trial carries an error.
C4_Original ==
  /\ pc /= "raised"
  /\ (pc = "returned" /\ hist.failed /= {}) => Result.error /= None

\* C4 (amended): no failure leaves run_mqtt_test as an exception; a failure of
\* tls_set, connect, loop_start or publish is carried by the result as its
\* error (the TLS or connect error itself; the publish error unless another
\* error was recorded first); an exception of disconnect or loop_stop is
\* caught as well, but the result need not show it.
C4_NoPropagation ==
  /\ pc /= "raised"
  /\ pc = "returned" =>
       /\ "tls_set" \in hist.failed =>
            Result.error.msg \in {"TLS Setup Error (Invalid Cipher?)", "TLS Setup Error"}
       /\ hist.failed \cap {"connect", "loop_start"} /= {} =>
            Result.error = Err("Connect Error", 0)
       /\ "publish" \in hist.failed => Result.error /= None /\ NoDurations(Result)

\* C4 witness: publish failed and the trial returned with the publish error
C4_Witness ==
  /\ pc = "returned"
  /\ "publish" \in hist.failed
  /\ Result.error = Err("Publish Error", 0)

\* C9 (as claimed): once state.error is set, no step of either thread
\* replaces it by another value.
C9_ErrorSticky == [][IsSet(state.error) => state'.error = state.error]_vars

\* C10 (as claimed): when run_mqtt_test has returned, connect_event and
\* publish_event are both signaled.
C10_BothGatesSignaled ==
  pc = "returned" => state.connect_event /\ state.publish_event

\* ---- the batch

\* the all_run_data a worker is about to hand to the export
Handed(w) == worker[w].all_run_data

\* C5: the BatchResult handed to the export step has one entry per selected
\* configuration, in the order selected, each a list of exactly N results
\* with iteration fields 1..N in order; the sink is given C sheets and C*N rows.
C5_BatchShape ==
  \A w \in Workers :
    /\ worker[w].pc = "export" =>
         /\ Len(Handed(w)) = Len(form.selected)
         /\ \A j \in 1..Len(Handed(w)) :
              /\ Handed(w)[j].key = ConfigName(form.selected[j])
              /\ Len(Handed(w)[j].value) = form.iterations
              /\ \A k \in 1..Len(Handed(w)[j].value) :
                   Handed(w)[j].value[k].iteration = k
    /\ reported[w].outcome = "completed" =>
         /\ sink[w].calls = 1
         /\ Len(sink[w].sheets) = Len(form.selected)
         /\ sink[w].rows = Len(form.selected) * form.iterations

\* C5 witness: two configurations of two iterations each are handed to the
\* export, with failed and successful trials among them
C5_Witness ==
  \E w \in Workers :
    /\ worker[w].pc = "export"
    /\ Len(Handed(w)) = 2
    /\ form.iterations = 2
    /\ Handed(w)[1].value[1].error /= None
    /\ Handed(w)[1].value[2].error = None
    /\ Handed(w)[2].value[1].error = None

\* C6 (as claimed): a batch that ended cancelled while its k-th configuration
\* was in progress gave the sink no results of configuration k and the
\* results of configurations 1..k-1.
C6_Original ==
  \A w \in Workers :
    ( /\ reported[w].outcome = "cancelled"
      /\ reported[w].cfg > 1
      /\ reported[w].cfg <= Len(form.selected) )
    => /\ sink[w].calls = 1
       /\ sink[w].sheets = [j \in 1..(reported[w].cfg - 1) |->
                              ConfigName(form.selected[j])]

\* C6 (amended): a batch that ended cancelled gave the sink nothing: no
\* results of the configuration in progress and none of the configurations
\* completed before it.
C6_CancelFlushesNothing ==
  \A w \in Workers : reported[w].outcome = "cancelled" => sink[w] = NoExport

\* C6 witness: a batch cancelled in its second configuration, the first
\* one completed
C6_Witness ==
  \E w \in Workers :
    /\ reported[w].outcome = "cancelled"
    /\ reported[w].cfg = 2
    /\ Len(form.selected) = 2

\* the worker is at one of its reads of self.test_cancelled
AtCancelCheck(w) ==
  \/ worker[w].pc = "cfg_check" /\ worker[w].cfg <= Len(worker[w].test_configs)
  \/ worker[w].pc = "iter_check" /\ worker[w].i <= worker[w].iterations
  \/ worker[w].pc = "export_check"

\* C7: a worker starts a trial only in a step that read the flag unset; a
\* step that reads the flag set ends the worker with cancellation reported
\* and nothing exported; and after that the worker runs no trial and no
\* export (its slot only changes when a new batch is started).
C7_CancelCheckedBeforeEveryTrial ==
  [][\A w \in Workers :
       /\ worker'[w].trials > worker[w].trials =>
            worker[w].pc = "iter_check" /\ ~test_cancelled
       /\ (AtCancelCheck(w) /\ test_cancelled /\ worker'[w] /= worker[w]) =>
            /\ worker'[w].pc = "done"
            /\ reported'[w].outcome = "cancelled"
            /\ sink'[w] = NoExport
       /\ (reported[w].outcome = "cancelled"
           /\ <<worker'[w], sink'[w], reported'[w]>> /= <<worker[w], sink[w], reported[w]>>) =>
            /\ worker'[w].pc = "cfg_check" /\ worker'[w].trials = 0
            /\ reported'[w] = NoReport /\ sink'[w] = NoExport]_vars

\* C7 witness: a worker that read the flag set while its first configuration
\* was in progress has ended cancelled, with nothing exported
C7_Witness ==
  \E w \in Workers :
    /\ reported[w].outcome = "cancelled"
    /\ reported[w].cfg = 1
    /\ worker[w].pc = "done"
    /\ sink[w] = NoExport

\* C8 (as claimed): at most one trial is in flight at any time.
C8_OneTrialInFlight ==
  Cardinality({w \in Workers : worker[w].pc = "in_flight"}) <= 1

\* ---- the gates and the teardown of a trial

\* a step in which a call of record_error returns, on the caller thread or on
\* the callback thread
RecordErrorReturns ==
  \/ pc = "re_63" /\ pc' /= "re_63"
  \/ cb.step = "63" /\ cb' = NoCb

\* C11: when a call of record_error returns, on either thread, connect_event
\* and publish_event are both signaled; a signaled gate is never cleared; and
\* a caller waiting on a signaled gate is released by the signal (its wait
\* returns True), not by the timeout.
C11_RecordErrorSignalsBoth ==
  [][ /\ RecordErrorReturns => state'.connect_event /\ state'.publish_event
      /\ state.connect_event => state'.connect_event
      /\ state.publish_event => state'.publish_event
      /\ (pc = "connect_wait" /\ state.connect_event /\ pc' /= pc) => connected'
      /\ (pc = "publish_wait" /\ state.publish_event /\ pc' /= pc) => puback_received'
    ]_vars

\* C11 witness: the caller is blocked in the publish wait, no publish
\* acknowledgement was recorded, and on_disconnect's record_error has returned
\* with both gates signaled
C11_Witness ==
  /\ pc = "publish_wait"
  /\ state.publish_ack_time = 0
  /\ state.error.msg = "Unexpected disconnect"
  /\ cb = NoCb
  /\ state.connect_event /\ state.publish_event

\* C12 (as claimed): a trial that recorded connect_sent_time has called
\* client.disconnect() by the time run_mqtt_test returns.
C12_DisconnectAttempted ==
  (pc = "returned" /\ state.connect_sent_time > 0) => "disconnect" \in hist.calls

\* client.loop_start() was called and returned: the network loop was started
LoopStarted == "loop_start" \in hist.calls \ hist.failed

C14_TlsFailureIsTerminal ==
  (pc = "returned" /\ "tls_set" \in hist.failed) =>
    /\ hist.calls = {"tls_set"}
    /\ ~loop_running /\ ~hist.early /\ ~hist.late
    /\ state.error.msg \in {"TLS Setup Error (Invalid Cipher?)", "TLS Setup Error"}
    /\ Result.error = state.error
    /\ state.connect_event /\ state.publish_event
    /\ state.connect_sent_time = 0
    /\ NoDurations(Result)

\* C14 witness: tls_set raised and the trial has returned
C14_Witness ==
  /\ pc = "returned"
  /\ hist.failed = {"tls_set"}
  /\ state.error = Err("TLS Setup Error (Invalid Cipher?)", 0)

\* C15 (as claimed): connect was acknowledged with success and client.publish
\* then failed (failure code or exception), nothing else went wrong: the
\* result carries the publish error and the handshake duration
\* connect_ack_time - connect_sent_time.
C15_PublishFailureKeepsHandshake ==
  ( /\ pc = "returned"
    /\ connected
    /\ state.connect_ack_time > 0
    /\ hist.failed = {"publish"}
    /\ ~hist.bad )
  => /\ Result.error = Err("Publish Error", 0)
     /\ Result.handshake = state.connect_ack_time - state.connect_sent_time

\* ---- the callbacks

\* the step in which on_disconnect, entered with a non-zero reason code and no
\* error recorded, decides between ignoring the notification and record_error
DisconnectDecides == cb.fn = "on_disconnect" /\ cb.step = "146" /\ cb' /= cb

\* the publish acknowledgement was recorded less than the grace window ago
AfterPuback ==
  state.publish_ack_time > 0 /\ cb.now - state.publish_ack_time < GraceWindow

\* the connect acknowledgement was recorded less than the grace window ago
\* and publish was not sent yet
AfterConnack ==
  /\ state.connect_ack_time > 0 /\ state.publish_sent_time = 0
  /\ cb.now - state.connect_ack_time < GraceWindow

\* C16 (as claimed): the notification is ignored exactly when the publish
\* acknowledgement was recorded and the notification is within the grace
\* window after it; otherwise on_disconnect goes on to record the error.
C16_Original ==
  [][DisconnectDecides => ((cb' = NoCb) <=> AfterPuback)]_vars

\* C16 (amended): on_disconnect acts only on a non-zero reason code with no
\* error recorded; it ignores the notification exactly when it is within the
\* grace window after the publish acknowledgement, or within the grace window
\* after the connect acknowledgement with publish not yet sent; otherwise it
\* records the unexpected-disconnect error with the reason code.
C16_DisconnectGrace ==
  [][ /\ (cb.fn = "idle" /\ cb'.fn = "on_disconnect") =>
           cb'.arg /= 0 /\ ~IsSet(state.error)
      /\ DisconnectDecides =>
           /\ (cb' = NoCb) <=> (AfterPuback \/ AfterConnack)
           /\ cb' /= NoCb => cb'.step = "59" /\ cb'.arg = cb.arg
      /\ (cb.fn = "on_disconnect" /\ cb.step = "59" /\ cb' /= cb) =>
           state'.error = Err("Unexpected disconnect", cb.arg)
    ]_vars

\* C16 witness: on_disconnect has read the clock within the grace window
\* after the connect acknowledgement, publish not sent, no publish
\* acknowledgement: the case the claim counts as an error and the code ignores
C16_Witness ==
  /\ cb.fn = "on_disconnect" /\ cb.step = "146"
  /\ AfterConnack
  /\ ~AfterPuback

\* C17: on_publish goes on to record_publish_ack only with the mid held in
\* state.message_id; a callback delivered with any other mid returns at once,
\* and the step that delivers it leaves every field of the state unchanged.
C17_MismatchedAckIgnored ==
  [][ /\ (cb.fn = "idle" /\ cb'.fn = "on_publish") =>
           cb'.arg = state.message_id /\ state' = state
      /\ (hist'.acks /= hist.acks /\ cb' = NoCb) => state' = state
    ]_vars

\* C17 witness: the caller waits for the acknowledgement of the mid it stored,
\* on_publish was delivered with another mid only and has returned, and no
\* acknowledgement time, gate or error was set
C17_Witness ==
  /\ pc = "publish_wait"
  /\ state.message_id = msg_info_mid
  /\ hist.acks /= {} /\ msg_info_mid \notin hist.acks
  /\ cb = NoCb
  /\ state.publish_ack_time = 0 /\ ~state.publish_event /\ state.error = None

\* ---- the export

\* C18 (as claimed): a batch whose export failed to write its file is not
\* reported as completed.
C18_SinkFailureIsFatal ==
  \A w \in Workers :
    (sink[w].calls = 1 /\ ~sink[w].written) => reported[w].outcome /= "completed"

\* ---- the statistics

\* calculate_statistics has returned
Returned == stats.Count /= Null

\* C19: for an empty column and for a column of None only,
\* calculate_statistics returns Count = 0 and None for Mean, Median, StdDev,
\* Min, Max and the 95th percentile.
C19_EmptyStatistics ==
  (Returned /\ \A i \in 1..Len(data_list) : data_list[i] = Null) =>
    /\ stats.Count = 0
    /\ stats.Mean = NoneFrac /\ stats.Median = NoneFrac /\ stats.StdDev = NoneFrac
    /\ stats.Min = Null /\ stats.Max = Null /\ stats.Percentile95 = NoneFrac

\* C19 witness: calculate_statistics has returned for a column of two None
C19_Witness ==
  /\ data_list = <<Null, Null>>
  /\ Returned
  /\ stats.Count = 0

\* C20 (as claimed): the dictionary calculate_statistics returned for a column
\* is the one it returns for every reordering of that column.
C20_PermutationInvariant ==
  Returned => CalculateStatistics(data_list) = stats

RECURSIVE Sum(_)
\* the exact sum of the samples
Sum(a) == IF a = <<>> THEN 0 ELSE Head(a) + Sum(Tail(a))

\* x is the float computed for the exact value e by k rounded operations:
\* e itself when e and everything below it is a float, and within the
\* rounding error of k operations of it otherwise
Computed(x, e, k) ==
  /\ e < 2 ^ MantissaBits => x = e
  /\ (2 ^ MantissaBits - k) * (IF x >= e THEN x - e ELSE e - x) <= k * e

\* the number of samples of v below x and above x
Below(v, x) == Cardinality({i \in 1..Len(v) : v[i] < x})
Above(v, x) == Cardinality({i \in 1..Len(v) : v[i] > x})

WithError(results_list) ==
  Cardinality({k \in 1..Len(results_list) : results_list[k].error /= None})

\* C22 (as claimed): for every configuration handed to the export, Successful
\* Runs + Failed Runs is the number of its trials and Failed Runs is the
\* number of its trials whose result has an error.
C22_RunCounts ==
  \A w \in Workers :
    worker[w].pc = "export" =>
      \A j \in 1..Len(Handed(w)) :
        LET results_list == Handed(w)[j].value
        IN /\ SuccessfulRuns(results_list) + FailedRuns(results_list) = Len(results_list)
           /\ FailedRuns(results_list) = WithError(results_list)

\* the sleeps a worker owes for the iterations 1..i-1 of its current
\* configuration and for all the configurations before it
SleepsDue(f, done) ==
  IF f.delay > 0
  THEN (f.cfg - 1) * (f.iterations - 1)
       + (IF done < f.iterations THEN done ELSE f.iterations - 1)
  ELSE 0

\* C23: a worker sleeps only with a positive delay and after an iteration
\* i < N; its count of sleeps is one per finished iteration i < N of every
\* configuration, so that a batch which reaches its export has slept exactly
\* C * (N - 1) times, none of them after the last iteration of a configuration.
C23_SleepsBetweenIterations ==
  \A w \in Workers :
    LET f == worker[w]
    IN /\ f.pc = "sleep" =>
            f.delay > 0 /\ f.i < f.iterations /\ f.sleeps = SleepsDue(f, f.i)
       /\ f.pc \in {"iter_check", "in_flight"} => f.sleeps = SleepsDue(f, f.i - 1)
       /\ f.pc = "cfg_check" => f.sleeps = SleepsDue(f, 0)
       /\ f.pc \in {"export_check", "export"} /\ f.delay > 0 =>
            f.sleeps = Len(f.test_configs) * (f.iterations - 1)

\* C23 witness: a batch of two configurations and two iterations with a
\* positive delay is at its export and has slept twice.
C23_Witness ==
  \E w \in Workers :
    /\ worker[w].pc = "export"
    /\ worker[w].delay > 0
    /\ Len(worker[w].test_configs) = 2
    /\ worker[w].iterations = 2
    /\ worker[w].sleeps = 2

\* C24 (as claimed): a worker that is in its inter-trial delay while
\* cancellation is requested leaves the delay by reporting the cancelled
\* outcome, not by sleeping the delay out.
C24_CancelInsideSleep ==
  [][\A w \in Workers :
       worker[w].pc = "sleep" /\ test_cancelled /\ worker'[w] /= worker[w]
         => reported'[w].outcome = "cancelled"]_vars

\* C25: the caller enters the publish phase only from a guard that saw the
\* connect gate signaled, connect_ack_time set and no error; in every state
\* reached, publish_sent_time set or publish called implies connect_ack_time
\* set and a connect wait that returned signaled, and the recorded error is
\* then never the connect timeout.
C25_PublishNeedsConnack ==
  [][/\ pc = "publish_guard" /\ pc' = "publish_sent" =>
          /\ connected /\ state.connect_event
          /\ state.connect_ack_time > 0
          /\ ~IsSet(state.error)
     /\ state'.publish_sent_time > 0 \/ pc' \in {"publish_sent", "publish"}
           \/ "publish" \in hist'.calls =>
          /\ connected' /\ state'.connect_event
          /\ state'.connect_ack_time > 0
          /\ state'.error.msg /= "Connect timeout"]_vars

\* C25 witness: the trial has returned after a publish was issued, with both
\* publish_sent_time and connect_ack_time set.
C25_Witness ==
  /\ pc = "returned"
  /\ "publish" \in hist.calls
  /\ state.publish_sent_time > 0
  /\ state.connect_ack_time > 0

\* the caller is past line 271: the publish wait has expired and no error was
\* recorded when the caller looked
ExpiredWithoutError == pc = "puback_check2"

\* C26 (as claimed): whenever the publish wait has expired and no error is
\* recorded, the caller's next step records the error "PUBACK timeout".
C26_Original ==
  [][ExpiredWithoutError /\ pc' /= pc =>
        pc' = "re_59" /\ err_msg' = Err("PUBACK timeout", 0)]_vars

\* C26 (amended): whenever the publish wait has expired, no error is recorded
\* and publish_ack_time is still unset, the caller's next step records the
\* error "PUBACK timeout", and from the end of that record_error on the result
\* has a non-null error; with publish_ack_time already set by on_publish, the
\* caller records nothing.
C26_PubackTimeout ==
  [][/\ ExpiredWithoutError /\ pc' /= pc =>
          IF state.publish_ack_time = 0
          THEN pc' = "re_59" /\ err_msg' = Err("PUBACK timeout", 0)
          ELSE pc' = "disconnect_guard" /\ err_msg' = err_msg
     /\ err_msg' = Err("PUBACK timeout", 0) /\ pc' /= "re_59" =>
          GetResultsDict(state').error /= None]_vars

\* C26 witness: the trial has returned after an expired publish wait for
\* which the caller recorded the timeout; the result has an error.
C26_Witness ==
  /\ pc = "returned"
  /\ ~puback_received
  /\ "publish" \in hist.calls
  /\ err_msg = Err("PUBACK timeout", 0)
  /\ Result.error /= None

\* the error on_connect records for a non-success reason code is the trial's
\* error
Rejected == state.error.msg = "Connect RC"

\* C27 (as claimed): on_connect with a non-success code c records the error
\* naming c and then signals the connect gate, both without writing
\* connect_ack_time; from then on the caller does not enter the publish
\* phase, and the error stays the trial's error up to the result, which has
\* it with all durations null.
C27_RejectionIsTheResult ==
  [][/\ cb.fn = "on_connect" /\ cb.step = "134" /\ cb' /= cb =>
          /\ state'.error = Err("Connect RC", cb.arg)
          /\ state'.connect_ack_time = state.connect_ack_time
     /\ cb.fn = "on_connect" /\ cb.step = "135" /\ cb' /= cb =>
          /\ state'.connect_event
          /\ state'.connect_ack_time = state.connect_ack_time
     /\ Rejected /\ pc \in {"connect_wait", "connect_check", "publish_guard"} =>
          pc' /= "publish_sent"
     /\ Rejected =>
          /\ state'.error = state.error
          /\ GetResultsDict(state').error = state.error
          /\ NoDurations(GetResultsDict(state'))]_vars

\* the errors only the callbacks record (134, 154): an error of this kind, or
\* of another kind, tells which thread wrote the error field last
CallbackErrors == {"Connect RC", "Unexpected disconnect"}

\* the step is one of the caller thread / of the network-loop thread
CallerStep == pc' /= pc
CallbackStep == cb' /= cb

\* C28 (as claimed): connect_ack_time and publish_ack_time change only in
\* callback steps; connect_sent_time, publish_sent_time and message_id only in
\* caller steps; and the error field is never assigned by one thread after
\* the other thread has assigned it in the same trial.
C28_SingleWriter ==
  [][/\ state'.connect_ack_time /= state.connect_ack_time
          \/ state'.publish_ack_time /= state.publish_ack_time
        => CallbackStep /\ ~CallerStep
     /\ state'.connect_sent_time /= state.connect_sent_time
          \/ state'.publish_sent_time /= state.publish_sent_time
          \/ state'.message_id /= state.message_id
        => CallerStep /\ ~CallbackStep
     /\ pc = "re_59" /\ CallerStep => state.error.msg \notin CallbackErrors
     /\ cb.step \in {"134", "59"} /\ CallbackStep =>
          state.error = None \/ state.error.msg \in CallbackErrors]_vars

\* C29: no step of a trial clears a gate: connect_event, once signaled, is
\* signaled in the next state, and so is publish_event.
C29_GatesMonotonic ==
  [][/\ state.connect_event => state'.connect_event
     /\ state.publish_event => state'.publish_event]_vars

\* C29 witness: the trial has returned with both gates signaled, the connect
\* gate first by the acknowledgement and then set again by record_error.
C29_Witness ==
  /\ pc = "returned"
  /\ state.connect_event /\ state.publish_event
  /\ state.connect_ack_time > 0
  /\ IsSet(state.error)
  /\ hist.calls \cap {"publish"} /= {}

\* the cause of a gate is recorded in state s: its timestamp or an error
ConnectCause(s) == s.connect_ack_time > 0 \/ IsSet(s.error)
PublishCause(s) == s.publish_ack_time > 0 \/ IsSet(s.error)

\* C30: in every state reached, a signaled connect_event has connect_ack_time
\* set or an error recorded, and a signaled publish_event has publish_ack_time
\* set or an error recorded; and the step that signals a gate finds its cause
\* already written.
C30_CauseBeforeGate ==
  [][/\ state'.connect_event => ConnectCause(state')
     /\ state'.publish_event => PublishCause(state')
     /\ ~state.connect_event /\ state'.connect_event => ConnectCause(state)
     /\ ~state.publish_event /\ state'.publish_event => PublishCause(state)]_vars

\* C30 witness: the caller has been released by the publish gate that
\* on_publish signaled, with no error, and finds both timestamps written.
C30_Witness ==
  /\ pc = "puback_check"
  /\ puback_received
  /\ state.connect_event /\ state.publish_event
  /\ ~IsSet(state.error)
  /\ state.connect_ack_time > 0 /\ state.publish_ack_time > 0

\* C31 (as claimed): in every state of a trial a timestamp is set only if the
\* timestamps of the earlier phases are set, the timestamps that are set are
\* in the order connect sent <= connect ack <= publish sent <= publish ack,
\* and a result without error has non-negative durations with
\* total >= handshake + puback.
C31_TimestampOrder ==
  /\ state.connect_ack_time > 0 =>
        state.connect_sent_time > 0 /\ state.connect_sent_time <= state.connect_ack_time
  /\ state.publish_sent_time > 0 =>
        state.connect_ack_time > 0 /\ state.connect_ack_time <= state.publish_sent_time
  /\ state.publish_ack_time > 0 =>
        /\ state.publish_sent_time > 0 /\ state.connect_ack_time > 0
        /\ state.publish_sent_time <= state.publish_ack_time
  /\ Result.error = None =>
        /\ Result.handshake >= 0 /\ Result.puback >= 0 /\ Result.total >= 0
        /\ Result.total >= Result.handshake + Result.puback

\* the four timestamps of s are set
AllSet(s) ==
  /\ s.connect_sent_time > 0 /\ s.connect_ack_time > 0
  /\ s.publish_sent_time > 0 /\ s.publish_ack_time > 0

\* C32: for every MqttTestState, reachable or not, whose error is null and
\* which has a timestamp unset, get_results_dict returns a non-null error; it
\* returns a null error only when the error is null and all four timestamps
\* are set.
C32_IncompleteRunSurfaced ==
  results_dict /= NotRead =>
    /\ state.error = None /\ ~AllSet(state) => results_dict.error /= None
    /\ results_dict.error = None => state.error = None /\ AllSet(state)

\* C32 witness: a state without error whose publish was sent and never
\* acknowledged has been read, and the result carries the error made up for it.
C32_Witness ==
  /\ results_dict /= NotRead
  /\ state.error = None
  /\ state.connect_sent_time > 0 /\ state.connect_ack_time > 0
  /\ state.publish_sent_time > 0 /\ state.publish_ack_time = 0
  /\ results_dict.error = Err("PUBACK Incomplete/Timeout", 0)

\* the adapter has delivered on_publish, to its end, with the mid that publish
\* returned and with no other mid, and has notified no rejection and no
\* disconnect
MatchingAckDelivered ==
  /\ hist.acks = {msg_info_mid}
  /\ ~hist.bad
  /\ cb.fn = "idle"

\* C33 (as claimed): when the caller leaves the publish wait after the
\* adapter has delivered the acknowledgement carrying the mid publish
\* returned, the wait was released by the gate, publish_ack_time is recorded
\* and no error is, whatever the interleaving of the callback with the caller.
C33_MatchingAckSucceeds ==
  [][pc = "publish_wait" /\ CallerStep /\ MatchingAckDelivered =>
        /\ puback_received'
        /\ state.publish_ack_time > 0
        /\ ~IsSet(state.error)
        /\ AllDurations(GetResultsDict(state))]_vars

\* C34: whatever the adapter does (callbacks in any order, late, repeated or
\* never delivered), a trial whose caller thread keeps running eventually
\* returns from run_mqtt_test.
C34_TrialTerminates == <>(pc = "returned")

\* C34 witness: the trial has returned although the adapter never delivered a
\* callback: the connect wait was released by its timeout.
C34_Witness ==
  /\ pc = "returned"
  /\ ~hist.early /\ ~hist.late
  /\ ~connected
  /\ "loop_start" \in hist.calls
  /\ state.error = Err("Connect timeout", 0)

\* C34, for the batch: since every trial returns, a worker thread that is
\* alive eventually is at its export step or has reported the batch cancelled.
C34_BatchReachesExport ==
  \A w \in Workers :
    IsAlive(w) ~> (worker[w].pc = "export" \/ reported[w].outcome = "cancelled")

\* C35 (as claimed): a cancellation request stays in force for as long as a
\* worker thread that was running when it was made is alive, under every
\* later user action; the worker therefore reads it at its next check,
\* starts no further trial and never calls the export.
C35_CancelIsFinal ==
  [][\A w \in Workers :
       IsAlive(w) /\ test_cancelled /\ worker'[w] = worker[w]
         => test_cancelled']_vars

\* C36 (as claimed): once run_mqtt_test has returned, no step changes the
\* MqttTestState it returned (timestamps, error, gates), so that
\* get_results_dict yields the same result whenever it is called.
C36_FinalizedOnReturn ==
  [][pc = "returned" =>
        /\ state' = state
        /\ GetResultsDict(state') = GetResultsDict(state)]_vars

====
